---------------------------- MODULE Spec2Model ----------------------------
(***************************************************************************)
(* A* search for a shortest compass-and-straightedge construction          *)
(* (app/solver/search.py) over the numeric kernel (app/geometry/kernels.py)*)
(* and the canonical forms (app/geometry/primitives.py), guided by the     *)
(* heuristic of app/solver/heuristic.py.                                   *)
(*                                                                         *)
(* Numbers.  A float64 of the program is an integer number of grid units.  *)
(* Sums, differences and products are exact; a division and a square root  *)
(* round to the nearest grid unit, which is the kernel's round-off.  The   *)
(* canonical forms round to HASH_GRID grid units, coarser than the         *)
(* round-off, as 10^-HASH_PRECISION is coarser than the float64 round-off. *)
(* A comparison against EPSILON is a comparison of integers: |x| < EPSILON *)
(* iff x = 0, and x > y + EPSILON iff x > y.                               *)
(*                                                                         *)
(* Dictionaries.  A Python dict is a sequence of [id, data] entries in     *)
(* insertion order; an id "p7" is its ordinal 7, the letter being fixed by *)
(* the sub-mapping the entry lives in; every caller id is of that form.    *)
(*                                                                         *)
(* The heap.  open_list is the set of the nodes on the heap; heappop takes *)
(* the least node under the tuple order, which MinNodes computes.          *)
(***************************************************************************)
EXTENDS Integers, Sequences, FiniteSets, TLC

VARIABLES
    target_definition,    \* solve's argument: [type, data]
    max_steps,            \* solve's argument
    max_open,             \* the admission cap the run is configured with
    initial_state,        \* State(objects, next_ids) built at search.py:44-49
    open_list,            \* the heap, as the set of SearchNodes it holds
    visited,              \* set of state hashes
    tie_breaker_counter,  \* next value of itertools.count()
    priority,             \* locals unpacked from the popped node
    tie_breaker,
    g_cost,
    current_state,
    path,
    successors,           \* successors of current_state not yet iterated
    pc,                   \* "while" | "for" | "done"
    result,               \* the first component of the returned pair
    stats,                \* the returned stats
    cancel_requested      \* a caller's request to cancel the run

vars == <<target_definition, max_steps, max_open, initial_state, open_list,
          visited, tie_breaker_counter, priority, tie_breaker, g_cost,
          current_state, path, successors, pc, result, stats,
          cancel_requested>>

None == "None"
NaN == "nan"

\* The value of a local of solve that no statement has assigned yet
Unbound == -1

\* float('inf'), above every finite cost of a run
Inf == 1000000

\* The first component of solve's return value: None, or a path
ReturnedNone == [is_none |-> TRUE, path |-> <<>>]
ReturnedPath(steps) == [is_none |-> FALSE, path |-> steps]

----------------------------------------------------------------------------
(* Arithmetic *)

Abs(x) == IF x < 0 THEN -x ELSE x

\* n / d rounded to the nearest integer
RoundDiv(n, d) ==
    IF d < 0 THEN (2 * (-n) + (-d)) \div (2 * (-d))
             ELSE (2 * n + d) \div (2 * d)

RECURSIVE SqrtFrom(_, _)
SqrtFrom(n, k) == IF n <= k * k + k THEN k ELSE SqrtFrom(n, k + 1)

\* np.sqrt rounded to the nearest integer
Sqrt(n) == SqrtFrom(n, 0)

RECURSIVE Gcd(_, _)
Gcd(a, b) == IF b = 0 THEN a ELSE Gcd(b, a % b)

----------------------------------------------------------------------------
(* app/geometry/primitives.py *)

HASH_GRID == 3

\* round(x, HASH_PRECISION)
Round(x) == HASH_GRID * RoundDiv(x, HASH_GRID)

normalize_point(p) == <<Round(p[1]), Round(p[2])>>

\* (A, B, C) / sqrt(A^2 + B^2) is held exactly, as the primitive integer
\* triple of the same direction: two lines have equal unit-norm triples iff
\* their primitive triples are equal.
normalize_line(l) ==
    LET A == l[1]
        B == l[2]
        C == l[3]
    IN  IF A = 0 /\ B = 0 THEN <<0, 0, 0>>
        ELSE LET norm == Gcd(Gcd(Abs(A), Abs(B)), Abs(C))
                 A1 == A \div norm
                 B1 == B \div norm
                 C1 == C \div norm
             IN  IF A1 < 0 THEN <<-A1, -B1, -C1>>
                 ELSE IF A1 = 0 /\ B1 < 0 THEN <<-A1, -B1, -C1>>
                 ELSE <<A1, B1, C1>>

normalize_circle(c) == <<Round(c[1]), Round(c[2]), Round(c[3])>>

norm_funcs(type, data) ==
    CASE type = "point" -> normalize_point(data)
      [] type = "line" -> normalize_line(data)
      [] type = "circle" -> normalize_circle(data)

\* lexicographic order on tuples of equal length
RECURSIVE TupleLess(_, _)
TupleLess(a, b) ==
    IF a = <<>> THEN FALSE
    ELSE IF Head(a) # Head(b) THEN Head(a) < Head(b)
    ELSE TupleLess(Tail(a), Tail(b))

RECURSIVE Insert(_, _)
Insert(x, s) ==
    IF s = <<>> THEN <<x>>
    ELSE IF TupleLess(Head(s), x) THEN <<Head(s)>> \o Insert(x, Tail(s))
    ELSE <<x>> \o s

RECURSIVE sorted(_)
sorted(s) == IF s = <<>> THEN <<>> ELSE Insert(Head(s), sorted(Tail(s)))

get_state_hash(current_objects) ==
    [points |-> sorted([i \in 1..Len(current_objects.points) |->
                          normalize_point(current_objects.points[i].data)]),
     lines |-> sorted([i \in 1..Len(current_objects.lines) |->
                          normalize_line(current_objects.lines[i].data)]),
     circles |-> sorted([i \in 1..Len(current_objects.circles) |->
                          normalize_circle(current_objects.circles[i].data)])]

----------------------------------------------------------------------------
(* app/geometry/kernels.py *)

construct_line_from_points(p1, p2) ==
    <<p1[2] - p2[2], p2[1] - p1[1], p1[1] * p2[2] - p2[1] * p1[2]>>

construct_circle_from_points(center, point_on_circumference) ==
    LET cx == center[1]
        cy == center[2]
        px == point_on_circumference[1]
        py == point_on_circumference[2]
    IN  <<cx, cy, (px - cx) * (px - cx) + (py - cy) * (py - cy)>>

NoResults == <<<<NaN, NaN>>, <<NaN, NaN>>>>

intersect_line_line(line1, line2) ==
    LET A1 == line1[1]
        B1 == line1[2]
        C1 == line1[3]
        A2 == line2[1]
        B2 == line2[2]
        C2 == line2[3]
        det == A1 * B2 - A2 * B1
    IN  IF det = 0 THEN [results |-> NoResults, count |-> 0]
        ELSE LET x == RoundDiv(B2 * (-C1) - B1 * (-C2), det)
                 y == RoundDiv(A1 * (-C2) - A2 * (-C1), det)
             IN  [results |-> <<<<x, y>>, <<NaN, NaN>>>>, count |-> 1]

intersect_line_circle(line, circle) ==
    LET A == line[1]
        B == line[2]
        C == line[3]
        cx == circle[1]
        cy == circle[2]
        r_sq == circle[3]
        det_line == A * A + B * B
    IN  IF det_line <= 0 THEN [results |-> NoResults, count |-> 0]
        ELSE
        LET x_closest == RoundDiv(B * B * cx - A * B * cy - A * C, det_line)
            y_closest == RoundDiv((-A) * B * cx + A * A * cy - B * C, det_line)
            dist_sq == (x_closest - cx) * (x_closest - cx)
                       + (y_closest - cy) * (y_closest - cy)
        IN  IF dist_sq > r_sq THEN [results |-> NoResults, count |-> 0]
            ELSE IF dist_sq = r_sq
            THEN [results |-> <<<<x_closest, y_closest>>, <<NaN, NaN>>>>,
                  count |-> 1]
            ELSE
            LET half_chord_length == Sqrt(r_sq - dist_sq)
                line_dir_norm == Sqrt(det_line)
                dx == RoundDiv(half_chord_length * (-B), line_dir_norm)
                dy == RoundDiv(half_chord_length * A, line_dir_norm)
            IN  [results |-> <<<<x_closest + dx, y_closest + dy>>,
                               <<x_closest - dx, y_closest - dy>>>>,
                 count |-> 2]

intersect_circle_circle(c1, c2) ==
    LET x1 == c1[1]
        y1 == c1[2]
        r1_sq == c1[3]
        r1 == Sqrt(r1_sq)
        x2 == c2[1]
        y2 == c2[2]
        r2_sq == c2[3]
        r2 == Sqrt(r2_sq)
        d_sq == (x1 - x2) * (x1 - x2) + (y1 - y2) * (y1 - y2)
    IN  IF d_sq <= 0 THEN [results |-> NoResults, count |-> 0]
        ELSE
        LET d == Sqrt(d_sq)
        IN  IF d > r1 + r2 \/ d < Abs(r1 - r2)
            THEN [results |-> NoResults, count |-> 0]
            ELSE
            LET A == 2 * (x2 - x1)
                B == 2 * (y2 - y1)
                C == (x1 * x1 - x2 * x2) + (y1 * y1 - y2 * y2)
                     - (r1_sq - r2_sq)
            IN  intersect_line_circle(<<A, B, C>>, c1)

----------------------------------------------------------------------------
(* app/solver/heuristic.py *)

calculate_heuristic(current_objects, target_object_type) ==
    LET num_points == Len(current_objects.points)
        num_lines == Len(current_objects.lines)
        num_circles == Len(current_objects.circles)
    IN  IF target_object_type = "point"
        THEN IF num_lines >= 2 \/ num_circles >= 2
                \/ (num_lines >= 1 /\ num_circles >= 1)
             THEN 1
             ELSE IF num_points >= 2 THEN 3
             ELSE 5
        ELSE IF target_object_type = "line"
        THEN IF num_points >= 2 THEN 1 ELSE 2
        ELSE IF target_object_type = "circle"
        THEN IF num_points >= 2 THEN 1 ELSE 2
        ELSE Inf

----------------------------------------------------------------------------
(* Python dicts *)

HasKey(dict, id) == \E i \in 1..Len(dict) : dict[i].id = id

\* dict[id]
Get(dict, id) == dict[CHOOSE i \in 1..Len(dict) : dict[i].id = id].data

\* dict[id] = data: an existing key keeps its place and takes the new value
DictSet(dict, id, data) ==
    IF HasKey(dict, id)
    THEN [i \in 1..Len(dict) |->
            IF dict[i].id = id THEN [id |-> id, data |-> data] ELSE dict[i]]
    ELSE Append(dict, [id |-> id, data |-> data])

type_plural(obj_type) ==
    CASE obj_type = "point" -> "points"
      [] obj_type = "line" -> "lines"
      [] obj_type = "circle" -> "circles"

\* itertools.combinations(range(1, n + 1), 2) from index i on
RECURSIVE CombinationsFrom(_, _)
CombinationsFrom(i, n) ==
    IF i >= n THEN <<>>
    ELSE [j \in 1..(n - i) |-> <<i, i + j>>] \o CombinationsFrom(i + 1, n)

\* itertools.permutations(range(1, n + 1), 2) from index i on
RECURSIVE PermutationsFrom(_, _)
PermutationsFrom(i, n) ==
    IF i > n THEN <<>>
    ELSE [j \in 1..(n - 1) |-> <<i, IF j < i THEN j ELSE j + 1>>]
         \o PermutationsFrom(i + 1, n)

\* itertools.product(range(1, n + 1), range(1, m + 1)) from index i on
RECURSIVE ProductFrom(_, _, _)
ProductFrom(i, n, m) ==
    IF i > n THEN <<>>
    ELSE [j \in 1..m |-> <<i, j>>] \o ProductFrom(i + 1, n, m)

----------------------------------------------------------------------------
(* app/solver/search.py: successor generation *)

\* The insertion that does not compare canonical forms
_add_object_NoDedup(current_objects, obj_type, obj_id_num, obj_data) ==
    [objects |-> [current_objects EXCEPT ![type_plural(obj_type)] =
                     DictSet(current_objects[type_plural(obj_type)],
                             obj_id_num, obj_data)],
     is_new |-> TRUE,
     new_id |-> obj_id_num]

_add_object(current_objects, obj_type, obj_id_num, obj_data) ==
    LET existing == current_objects[type_plural(obj_type)]
        new_obj_norm == norm_funcs(obj_type, obj_data)
    IN  IF \E i \in 1..Len(existing) :
               norm_funcs(obj_type, existing[i].data) = new_obj_norm
        THEN [objects |-> current_objects, is_new |-> FALSE, new_id |-> None]
        ELSE [objects |-> [current_objects EXCEPT ![type_plural(obj_type)] =
                              DictSet(existing, obj_id_num, obj_data)],
              is_new |-> TRUE,
              new_id |-> obj_id_num]

\* search.py:143-149
intersection_configs(objects) ==
    LET lines == objects.lines
        circles == objects.circles
        ll == IF Len(lines) >= 2
              THEN LET c == CombinationsFrom(1, Len(lines))
                   IN  [k \in 1..Len(c) |->
                          [op_type |-> "ll",
                           item_ids |-> <<lines[c[k][1]].id, lines[c[k][2]].id>>]]
              ELSE <<>>
        lc == IF Len(lines) >= 1 /\ Len(circles) >= 1
              THEN LET c == ProductFrom(1, Len(lines), Len(circles))
                   IN  [k \in 1..Len(c) |->
                          [op_type |-> "lc",
                           item_ids |-> <<lines[c[k][1]].id, circles[c[k][2]].id>>]]
              ELSE <<>>
        cc == IF Len(circles) >= 2
              THEN LET c == CombinationsFrom(1, Len(circles))
                   IN  [k \in 1..Len(c) |->
                          [op_type |-> "cc",
                           item_ids |-> <<circles[c[k][1]].id, circles[c[k][2]].id>>]]
              ELSE <<>>
    IN  ll \o lc \o cc

\* search.py:153-161
Intersect(objects, config) ==
    LET a == config.item_ids[1]
        b == config.item_ids[2]
    IN  CASE config.op_type = "ll" ->
               intersect_line_line(Get(objects.lines, a), Get(objects.lines, b))
          [] config.op_type = "lc" ->
               intersect_line_circle(Get(objects.lines, a), Get(objects.circles, b))
          [] config.op_type = "cc" ->
               intersect_circle_circle(Get(objects.circles, a), Get(objects.circles, b))

\* search.py:170-176, the loop over range(count) from index i on;
\* acc = [objects, new_point_ids, generated]
RECURSIVE AddPoints(_, _, _, _, _)
AddPoints(results, count, i, next_point, acc) ==
    IF i > count THEN acc
    ELSE LET r == _add_object(acc.objects, "point",
                              next_point + acc.generated, results[i])
         IN  AddPoints(results, count, i + 1, next_point,
                 IF r.is_new
                 THEN [objects |-> r.objects,
                       new_point_ids |-> Append(acc.new_point_ids, r.new_id),
                       generated |-> acc.generated + 1]
                 ELSE [acc EXCEPT !.objects = r.objects])

\* The output descriptor that names the last point added
IntersectionOutput_Last(new_point_ids) ==
    [type |-> "point", id |-> new_point_ids[Len(new_point_ids)]]

\* The output descriptor of an intersection step (search.py:179)
IntersectionOutput(new_point_ids) == [type |-> "point", id |-> new_point_ids[1]]

\* search.py:152-180, the loop over intersection_configs from index k on;
\* generated = points_generated_in_this_call
RECURSIVE IntersectionSuccessors(_, _, _, _, _)
IntersectionSuccessors(objects, next_ids, configs, k, generated) ==
    IF k > Len(configs) THEN <<>>
    ELSE
    LET r == Intersect(objects, configs[k])
    IN  IF r.count = 0
        THEN IntersectionSuccessors(objects, next_ids, configs, k + 1, generated)
        ELSE
        LET acc == AddPoints(r.results, r.count, 1, next_ids.point,
                             [objects |-> objects, new_point_ids |-> <<>>,
                              generated |-> generated])
            rest == IntersectionSuccessors(objects, next_ids, configs, k + 1,
                                           acc.generated)
        IN  IF acc.new_point_ids # <<>>
            THEN <<[objects |-> acc.objects,
                    step |-> [operation |-> "Intersection",
                              inputs |-> configs[k].item_ids,
                              output |-> IntersectionOutput(acc.new_point_ids)]]>>
                 \o rest
            ELSE rest

\* search.py:183-189
RECURSIVE LineSuccessors(_, _, _, _)
LineSuccessors(objects, next_ids, pairs, k) ==
    IF k > Len(pairs) THEN <<>>
    ELSE
    LET p1 == objects.points[pairs[k][1]]
        p2 == objects.points[pairs[k][2]]
        r == _add_object(objects, "line", next_ids.line,
                         construct_line_from_points(p1.data, p2.data))
        rest == LineSuccessors(objects, next_ids, pairs, k + 1)
    IN  IF r.is_new
        THEN <<[objects |-> r.objects,
                step |-> [operation |-> "Line",
                          inputs |-> <<p1.id, p2.id>>,
                          output |-> [type |-> "line", id |-> r.new_id]]]>>
             \o rest
        ELSE rest

\* search.py:192-198
RECURSIVE CircleSuccessors(_, _, _, _)
CircleSuccessors(objects, next_ids, pairs, k) ==
    IF k > Len(pairs) THEN <<>>
    ELSE
    LET center == objects.points[pairs[k][1]]
        on_circ == objects.points[pairs[k][2]]
        r == _add_object(objects, "circle", next_ids.circle,
                         construct_circle_from_points(center.data, on_circ.data))
        rest == CircleSuccessors(objects, next_ids, pairs, k + 1)
    IN  IF r.is_new
        THEN <<[objects |-> r.objects,
                step |-> [operation |-> "Circle",
                          inputs |-> <<center.id, on_circ.id>>,
                          output |-> [type |-> "circle", id |-> r.new_id]]]>>
             \o rest
        ELSE rest

generate_successors(state) ==
    LET objects == state.objects
        next_ids == state.next_ids
        n == Len(objects.points)
    IN  IntersectionSuccessors(objects, next_ids, intersection_configs(objects), 1, 0)
        \o (IF n >= 2
            THEN LineSuccessors(objects, next_ids, CombinationsFrom(1, n), 1)
            ELSE <<>>)
        \o (IF n >= 2
            THEN CircleSuccessors(objects, next_ids, PermutationsFrom(1, n), 1)
            ELSE <<>>)

----------------------------------------------------------------------------
(* app/solver/search.py: solve *)

MAX_OPEN_LIST_SIZE == 150000

\* Bounds of the model
MaxSteps == 3
SmallCap == 2

\* max([int(k[1:]) for k in dict] or [0]) + 1
InitialId(dict) ==
    IF dict = <<>> THEN 1
    ELSE (CHOOSE m \in {dict[i].id : i \in 1..Len(dict)} :
              \A i \in 1..Len(dict) : dict[i].id <= m) + 1

\* search.py:44-49
InitialState(initial_objects) ==
    [objects |-> initial_objects,
     next_ids |-> [point |-> InitialId(initial_objects.points),
                   line |-> InitialId(initial_objects.lines),
                   circle |-> InitialId(initial_objects.circles)]]

\* search.py:53
target_norm == norm_funcs(target_definition.type, target_definition.data)

\* The goal test that compares the types only
is_goal_TypeOnly(newly_created_object_data, object_type) ==
    object_type = target_definition.type

\* search.py:55-59
is_goal(newly_created_object_data, object_type) ==
    IF object_type # target_definition.type THEN FALSE
    ELSE norm_funcs(object_type, newly_created_object_data) = target_norm

\* A counter that is read but not advanced
next_Stuck(counter) == counter

\* next(tie_breaker_counter): the state of the counter after a draw
next(counter) == counter + 1

\* The nodes heapq.heappop can return: the least under the tuple order
\* (priority, tie_breaker, ...)
MinNodes(heap) ==
    {n \in heap : \A m \in heap :
        \/ n.priority < m.priority
        \/ n.priority = m.priority /\ n.tie_breaker <= m.tie_breaker}

\* The budget test with > in place of >=
BudgetExhausted_Late(g, limit) == g > limit

\* search.py:76
BudgetExhausted(g, limit) == g >= limit

\* search.py:84
OpenListFull(heap, cap) == Cardinality(heap) > cap

\* search.py:87-90
newly_created_data(new_objects_state, step_info) ==
    Get(new_objects_state[type_plural(step_info.output.type)],
        step_info.output.id)

\* The path handed on without the step just taken
new_path_Stale(old_path, step_info) == old_path

\* search.py:91
new_path(old_path, step_info) == Append(old_path, step_info)

\* The statistics that leave the initial state out of the count
Stats_WithoutInitial(visited_set) ==
    [states_explored |-> Cardinality(visited_set) - 1]

\* search.py:94, 115
Stats(visited_set) == [states_explored |-> Cardinality(visited_set)]

\* search.py:102-107
new_ids(current_ids, step_info) ==
    LET newly_created_type == step_info.output.type
        new_id_num == step_info.output.id
    IN  IF new_id_num >= current_ids[newly_created_type]
        THEN [current_ids EXCEPT ![newly_created_type] = new_id_num + 1]
        ELSE current_ids

\* search.py:109, the State of the node built from a successor
NewState(state, successor) ==
    [objects |-> successor.objects,
     next_ids |-> new_ids(state.next_ids, successor.step)]

(* Inputs of solve *)

Pt(id, x, y) == [id |-> id, data |-> <<x, y>>]
Fig(id, a, b, c) == [id |-> id, data |-> <<a, b, c>>]

Knowns ==
    { [points |-> <<Pt(1, 0, 0), Pt(2, 6, 0)>>, lines |-> <<>>, circles |-> <<>>],
      [points |-> <<Pt(1, 0, 0)>>, lines |-> <<>>, circles |-> <<>>],
      [points |-> <<>>, lines |-> <<Fig(1, 1, 0, -9)>>,
       circles |-> <<Fig(1, 0, 0, 225)>>],
      [points |-> <<Pt(1, 9, -24), Pt(2, 9, -36)>>,
       lines |-> <<Fig(1, 1, 0, -9)>>, circles |-> <<Fig(1, 0, 0, 225)>>] }

Targets ==
    { [type |-> "point", data |-> <<-6, 0>>],
      [type |-> "point", data |-> <<9, -12>>],
      [type |-> "point", data |-> <<0, 0>>],
      [type |-> "line", data |-> <<0, 1, 0>>],
      [type |-> "circle", data |-> <<6, 0, 36>>] }

\* search.py:43-72
Init ==
    /\ target_definition \in Targets
    /\ max_steps \in 0..MaxSteps
    /\ max_open \in {SmallCap, MAX_OPEN_LIST_SIZE}
    /\ \E initial_objects \in Knowns :
          /\ initial_state = InitialState(initial_objects)
          /\ open_list =
               {[priority |-> 0 + calculate_heuristic(initial_objects,
                                                      target_definition.type),
                 tie_breaker |-> 0,
                 g_cost |-> 0,
                 state |-> InitialState(initial_objects),
                 path |-> <<>>]}
          /\ visited = {get_state_hash(initial_objects)}
    /\ tie_breaker_counter = next(0)
    /\ priority = Unbound
    /\ tie_breaker = Unbound
    /\ g_cost = 0
    /\ current_state = initial_state
    /\ path = <<>>
    /\ successors = <<>>
    /\ pc = "while"
    /\ result = ReturnedNone
    /\ stats = Stats({})
    /\ cancel_requested = FALSE

\* search.py:74-76, a popped node over the step budget is discarded
PopDiscard ==
    /\ pc = "while"
    /\ \E node \in MinNodes(open_list) :
          /\ BudgetExhausted(node.g_cost, max_steps)
          /\ open_list' = open_list \ {node}
          /\ priority' = node.priority
          /\ tie_breaker' = node.tie_breaker
          /\ g_cost' = node.g_cost
          /\ current_state' = node.state
          /\ path' = node.path
    /\ UNCHANGED <<target_definition, max_steps, max_open, initial_state,
                   visited, tie_breaker_counter, successors, pc, result,
                   stats, cancel_requested>>

\* search.py:74-78, a popped node is expanded
PopExpand ==
    /\ pc = "while"
    /\ \E node \in MinNodes(open_list) :
          /\ ~BudgetExhausted(node.g_cost, max_steps)
          /\ open_list' = open_list \ {node}
          /\ priority' = node.priority
          /\ tie_breaker' = node.tie_breaker
          /\ g_cost' = node.g_cost
          /\ current_state' = node.state
          /\ path' = node.path
          /\ successors' = generate_successors(node.state)
    /\ pc' = "for"
    /\ UNCHANGED <<target_definition, max_steps, max_open, initial_state,
                   visited, tie_breaker_counter, result, stats,
                   cancel_requested>>

\* search.py:80-82
SkipVisited ==
    /\ pc = "for"
    /\ successors # <<>>
    /\ get_state_hash(Head(successors).objects) \in visited
    /\ successors' = Tail(successors)
    /\ UNCHANGED <<target_definition, max_steps, max_open, initial_state,
                   open_list, visited, tie_breaker_counter, priority,
                   tie_breaker, g_cost, current_state, path, pc, result,
                   stats, cancel_requested>>

\* search.py:84
SkipCap ==
    /\ pc = "for"
    /\ successors # <<>>
    /\ get_state_hash(Head(successors).objects) \notin visited
    /\ OpenListFull(open_list, max_open)
    /\ successors' = Tail(successors)
    /\ UNCHANGED <<target_definition, max_steps, max_open, initial_state,
                   open_list, visited, tie_breaker_counter, priority,
                   tie_breaker, g_cost, current_state, path, pc, result,
                   stats, cancel_requested>>

\* search.py:86-95
ReturnGoal ==
    /\ pc = "for"
    /\ successors # <<>>
    /\ LET new_objects_state == Head(successors).objects
           step_info == Head(successors).step
       IN  /\ get_state_hash(new_objects_state) \notin visited
           /\ ~OpenListFull(open_list, max_open)
           /\ is_goal(newly_created_data(new_objects_state, step_info),
                      step_info.output.type)
           /\ visited' = visited \cup {get_state_hash(new_objects_state)}
           /\ stats' = Stats(visited')
           /\ result' = ReturnedPath(new_path(path, step_info))
    /\ pc' = "done"
    /\ UNCHANGED <<target_definition, max_steps, max_open, initial_state,
                   open_list, tie_breaker_counter, priority, tie_breaker,
                   g_cost, current_state, path, successors, cancel_requested>>

\* The push that does not consult the visited set
Push_Unchecked ==
    /\ pc = "for"
    /\ successors # <<>>
    /\ LET new_objects_state == Head(successors).objects
           step_info == Head(successors).step
           new_g == g_cost + 1
           new_h == calculate_heuristic(new_objects_state,
                                        target_definition.type)
       IN  /\ ~OpenListFull(open_list, max_open)
           /\ ~is_goal(newly_created_data(new_objects_state, step_info),
                       step_info.output.type)
           /\ visited' = visited \cup {get_state_hash(new_objects_state)}
           /\ IF new_h = Inf
              THEN UNCHANGED <<open_list, tie_breaker_counter>>
              ELSE /\ open_list' = open_list \cup
                        {[priority |-> new_g + new_h,
                          tie_breaker |-> tie_breaker_counter,
                          g_cost |-> new_g,
                          state |-> NewState(current_state, Head(successors)),
                          path |-> new_path(path, step_info)]}
                   /\ tie_breaker_counter' = next(tie_breaker_counter)
    /\ successors' = Tail(successors)
    /\ UNCHANGED <<target_definition, max_steps, max_open, initial_state,
                   priority, tie_breaker, g_cost, current_state, path, pc,
                   result, stats, cancel_requested>>

\* search.py:86-113
Push ==
    /\ pc = "for"
    /\ successors # <<>>
    /\ LET new_objects_state == Head(successors).objects
           step_info == Head(successors).step
           new_g == g_cost + 1
           new_h == calculate_heuristic(new_objects_state,
                                        target_definition.type)
       IN  /\ get_state_hash(new_objects_state) \notin visited
           /\ ~OpenListFull(open_list, max_open)
           /\ ~is_goal(newly_created_data(new_objects_state, step_info),
                       step_info.output.type)
           /\ visited' = visited \cup {get_state_hash(new_objects_state)}
           /\ IF new_h = Inf
              THEN UNCHANGED <<open_list, tie_breaker_counter>>
              ELSE /\ open_list' = open_list \cup
                        {[priority |-> new_g + new_h,
                          tie_breaker |-> tie_breaker_counter,
                          g_cost |-> new_g,
                          state |-> NewState(current_state, Head(successors)),
                          path |-> new_path(path, step_info)]}
                   /\ tie_breaker_counter' = next(tie_breaker_counter)
    /\ successors' = Tail(successors)
    /\ UNCHANGED <<target_definition, max_steps, max_open, initial_state,
                   priority, tie_breaker, g_cost, current_state, path, pc,
                   result, stats, cancel_requested>>

\* search.py:80, the for loop is exhausted
EndFor ==
    /\ pc = "for"
    /\ successors = <<>>
    /\ pc' = "while"
    /\ UNCHANGED <<target_definition, max_steps, max_open, initial_state,
                   open_list, visited, tie_breaker_counter, priority,
                   tie_breaker, g_cost, current_state, path, successors,
                   result, stats, cancel_requested>>

\* search.py:74, 115-116
ReturnNone ==
    /\ pc = "while"
    /\ open_list = {}
    /\ stats' = Stats(visited)
    /\ result' = ReturnedNone
    /\ pc' = "done"
    /\ UNCHANGED <<target_definition, max_steps, max_open, initial_state,
                   open_list, visited, tie_breaker_counter, priority,
                   tie_breaker, g_cost, current_state, path, successors,
                   cancel_requested>>

Next ==
    \/ PopDiscard
    \/ PopExpand
    \/ SkipVisited
    \/ SkipCap
    \/ ReturnGoal
    \/ Push
    \/ EndFor
    \/ ReturnNone

Spec == Init /\ [][Next]_vars

\* PopExpand as pc shows it: the only step of Next from "while" to "for"
Expanding ==
    /\ pc = "while"
    /\ \E node \in MinNodes(open_list) :
          ~BudgetExhausted(node.g_cost, max_steps)
    /\ pc' = "for"

\* SkipVisited, SkipCap, ReturnGoal and Push as pc and successors show them:
\* the body of the for loop either moves on to the next successor or returns
Iterating ==
    /\ pc = "for"
    /\ successors # <<>>
    /\ \/ successors' = Tail(successors) /\ pc' = pc
       \/ successors' = successors /\ pc' = "done"

\* solve runs on one thread that is never suspended for good: the step the
\* loop is at is taken.  At most one action is enabled in a state, and the
\* conditions below are weak fairness of each, PopExpand and the body of the
\* for loop being named by the change of pc and successors they make.
FairSpec ==
    /\ Spec
    /\ WF_vars(PopDiscard)
    /\ WF_pc(Expanding)
    /\ WF_<<pc, successors>>(Iterating)
    /\ WF_vars(EndFor)
    /\ WF_vars(ReturnNone)

\* A caller asks for the run to be cancelled (spec section 5); solve has no
\* parameter or flag through which it could learn of it
RequestCancel ==
    /\ pc # "done"
    /\ ~cancel_requested
    /\ cancel_requested' = TRUE
    /\ UNCHANGED <<target_definition, max_steps, max_open, initial_state,
                   open_list, visited, tie_breaker_counter, priority,
                   tie_breaker, g_cost, current_state, path, successors,
                   pc, result, stats>>

NextCancel == Next \/ RequestCancel

SpecCancel == Init /\ [][NextCancel]_vars

----------------------------------------------------------------------------
(* Properties *)

Done == pc = "done"
Solved == pc = "done" /\ ~result.is_none

\* The state holds a figure whose canonical form is the target's
HasTarget(objects) ==
    LET figures == objects[type_plural(target_definition.type)]
    IN  \E i \in 1..Len(figures) :
           norm_funcs(target_definition.type, figures[i].data) = target_norm

\* new_objects holds a figure with the target's canonical form that objects
\* does not hold
AddsTarget(objects, new_objects) == HasTarget(new_objects) /\ ~HasTarget(objects)

\* Breadth-first search over generate_successors: some construction of at
\* most k steps from state reaches a state that holds the target
RECURSIVE ReachWithin(_, _)
ReachWithin(state, k) ==
    \/ HasTarget(state.objects)
    \/ /\ k > 0
       /\ LET succ == generate_successors(state)
          IN  \E i \in 1..Len(succ) : ReachWithin(NewState(state, succ[i]), k - 1)

\* Some construction of at most k steps from state produces the target
RECURSIVE ProducedWithin(_, _)
ProducedWithin(state, k) ==
    /\ k > 0
    /\ LET succ == generate_successors(state)
       IN  \E i \in 1..Len(succ) :
              \/ AddsTarget(state.objects, succ[i].objects)
              \/ ProducedWithin(NewState(state, succ[i]), k - 1)

\* The successor at the head of the for loop passes the visited test and the
\* open-set cap
Accepted ==
    /\ pc = "for"
    /\ successors # <<>>
    /\ get_state_hash(Head(successors).objects) \notin visited
    /\ ~OpenListFull(open_list, max_open)

\* C1: a path returned by solve (under the program's cap) has length L such
\* that no construction shorter than L, over generate_successors from the
\* same initial state, reaches a state holding the target.
C1_Optimality ==
    (Solved /\ max_open = MAX_OPEN_LIST_SIZE)
        => ~ReachWithin(initial_state, Len(result.path) - 1)

\* C2: whenever an accepted successor adds a figure whose canonical form is
\* the target's (the second point of an intersection included), solve
\* returns the path ending in that successor's step.
C2_GoalTestOnEveryNewFigure ==
    [][(Accepted /\ AddsTarget(current_state.objects, Head(successors).objects))
          => /\ pc' = "done"
             /\ result' = ReturnedPath(Append(path, Head(successors).step))]_vars

\* C3: the heuristic of an expanded state never exceeds the least number of
\* construction steps that produce the target from it.
C3_Admissible ==
    pc = "for" =>
        ~ProducedWithin(current_state,
             calculate_heuristic(current_state.objects, target_definition.type) - 1)

\* Every figure of objects is in new_objects under the same id with the same
\* data, the added figures following under other ids
IdsKept(objects, new_objects) ==
    \A t \in {"points", "lines", "circles"} :
        /\ Len(new_objects[t]) >= Len(objects[t])
        /\ SubSeq(new_objects[t], 1, Len(objects[t])) = objects[t]

\* C4: every successor of an expanded state keeps every figure of the state
\* under its id with its data, and stores each added figure under an id that
\* no figure of that type has in the state.
C4_IdsStable ==
    pc = "for" =>
        \A i \in 1..Len(successors) :
            IdsKept(current_state.objects, successors[i].objects)

\* C5: no node with g above max_steps is in the open set, no node with
\* g >= max_steps is expanded, and a returned path has at most max_steps
\* steps (none at all when max_steps = 0).
C5_MaxStepsCap ==
    /\ \A node \in open_list : node.g_cost <= max_steps
    /\ pc = "for" => g_cost < max_steps
    /\ Solved => Len(result.path) <= max_steps
    /\ (Done /\ max_steps = 0) => result.is_none

\* A node whose g equals a positive max_steps was popped and discarded
C5_Witness == pc = "while" /\ max_steps > 0 /\ g_cost = max_steps

\* C6: the open set never holds more nodes than the cap.
C6_OpenSetCapped == Cardinality(open_list) <= max_open

\* C7: solve never returns a path of length 0, also when the initial state
\* already holds a figure with the target's canonical form.
C7_NoEmptyPath == Solved => Len(result.path) >= 1

\* solve has returned on an initial state that already holds the target
C7_Witness == Done /\ HasTarget(initial_state.objects) /\ max_steps > 0

\* The figure named by the output of the last step of the returned path, in
\* the successor that step led to, is a goal figure
LastStepProducedGoal ==
    /\ successors # <<>>
    /\ LET s == Head(successors)
       IN  /\ result.path # <<>>
           /\ result.path[Len(result.path)] = s.step
           /\ s.step.output.type = target_definition.type
           /\ norm_funcs(s.step.output.type,
                         Get(s.objects[type_plural(s.step.output.type)],
                             s.step.output.id)) = target_norm

SinglePoint(objects) ==
    Len(objects.points) = 1 /\ objects.lines = <<>> /\ objects.circles = <<>>

\* C8: solve finishes, either with a path whose last step produced a goal
\* figure or with no path and an empty open set; from a single known point
\* it returns no path with states_explored = 1.
C8_Termination ==
    /\ <>Done
    /\ [](Done => /\ ~result.is_none => LastStepProducedGoal
                  /\ result.is_none => open_list = {}
                  /\ SinglePoint(initial_state.objects)
                        => result.is_none /\ stats.states_explored = 1)

\* solve has returned a path of at least two steps
C8_Witness == Solved /\ Len(result.path) >= 2

\* C9: a run is a function of its inputs: heappop never has two candidates;
\* the tie-breaker drawn for a pushed node is above every tie-breaker drawn
\* before, so the tie-breakers in the open set are pairwise distinct, and the
\* popped node precedes every remaining node of its priority in insertion
\* order.
C9_Determinism ==
    /\ [](/\ Cardinality(MinNodes(open_list)) <= 1
          /\ \A n \in open_list : n.tie_breaker < tie_breaker_counter
          /\ Cardinality({n.tie_breaker : n \in open_list})
                = Cardinality(open_list))
    /\ [][/\ tie_breaker_counter' >= tie_breaker_counter
          /\ \A n \in open_list' \ open_list :
                /\ n.tie_breaker >= tie_breaker_counter
                /\ tie_breaker_counter' > n.tie_breaker
          /\ open_list' # open_list /\ open_list' \subseteq open_list
                => \A m \in open_list' :
                      \/ m.priority > priority'
                      \/ m.priority = priority' /\ m.tie_breaker > tie_breaker']_vars

\* A node was popped while a later-inserted node of the same priority waits
C9_Witness ==
    /\ pc = "for"
    /\ \E m \in open_list : m.priority = priority /\ m.tie_breaker > tie_breaker

\* C10: with the cancellation flag set at the top of an iteration of the main
\* loop, the run ends there, returning no path and stats that carry a
\* cancellation marker.
C10_Cancellation ==
    [][(cancel_requested /\ pc = "while")
          => /\ pc' = "done"
             /\ result'.is_none
             /\ "cancelled" \in DOMAIN stats']_vars

\* C11: no step of a run removes a key from the visited set: a step leaves it
\* unchanged or adds one canonical key; and the states_explored reported when
\* solve returns is the size of the visited set at that moment.
C11_VisitedMonotone ==
    /\ [][/\ visited \subseteq visited'
          /\ Cardinality(visited' \ visited) <= 1]_vars
    /\ [](Done => stats.states_explored = Cardinality(visited))

\* solve has returned after keys were added to the seeded visited set
C11_Witness == Done /\ Cardinality(visited) >= 3

\* C12: in the state of every node of the open set the next-id counter of
\* each type is above the ordinal of every figure id of that type in the
\* state (so a step that adds k figures of a type leaves the counter k above
\* the ids it found).
C12_NextIdsAboveUsed ==
    \A node \in open_list :
        \A t \in {"point", "line", "circle"} :
            LET figures == node.state.objects[type_plural(t)]
            IN  \A i \in 1..Len(figures) :
                   figures[i].id < node.state.next_ids[t]

\* The canonical forms of the points of a state
CanonPoints(objects) ==
    {normalize_point(objects.points[i].data) : i \in 1..Len(objects.points)}

\* The canonical forms, in the order of results, of the returned points from
\* index i on that are not among known
RECURSIVE FreshCanon(_, _, _, _)
FreshCanon(known, results, count, i) ==
    IF i > count THEN <<>>
    ELSE LET c == normalize_point(results[i])
         IN  IF c \in known
             THEN FreshCanon(known, results, count, i + 1)
             ELSE <<c>> \o FreshCanon(known \cup {c}, results, count, i + 1)

\* For each intersecting pair from index k on that returns a point canonically
\* new to objects: the pair and its new points
RECURSIVE FreshIntersections(_, _, _)
FreshIntersections(objects, configs, k) ==
    IF k > Len(configs) THEN <<>>
    ELSE LET r == Intersect(objects, configs[k])
             fresh == FreshCanon(CanonPoints(objects), r.results, r.count, 1)
             rest == FreshIntersections(objects, configs, k + 1)
         IN  IF fresh = <<>> THEN rest
             ELSE <<[inputs |-> configs[k].item_ids, fresh |-> fresh]>> \o rest

IsIntersection(successor) == successor.step.operation = "Intersection"

\* The intersection successors in succ are, pair by pair, those of
\* FreshIntersections: one per pair, adding the pair's new points and no
\* other, with the first new point as the step's output
OneStepPerPair(state, succ) ==
    LET inter == SelectSeq(succ, IsIntersection)
        fresh == FreshIntersections(state.objects,
                                    intersection_configs(state.objects), 1)
    IN  /\ Len(inter) = Len(fresh)
        /\ \A j \in 1..Len(inter) :
              /\ inter[j].step.inputs = fresh[j].inputs
              /\ CanonPoints(inter[j].objects) \ CanonPoints(state.objects)
                    = {fresh[j].fresh[i] : i \in 1..Len(fresh[j].fresh)}
              /\ inter[j].objects.lines = state.objects.lines
              /\ inter[j].objects.circles = state.objects.circles
              /\ inter[j].step.output.type = "point"
              /\ HasKey(inter[j].objects.points, inter[j].step.output.id)
              /\ normalize_point(Get(inter[j].objects.points,
                                     inter[j].step.output.id))
                    = fresh[j].fresh[1]

\* C13: an intersection is one construction step whatever the number of
\* points it yields: generate_successors emits one successor for each pair
\* that returns a canonically new point and none for the other pairs; the
\* successor adds exactly the returned points that are canonically new (both,
\* or the one that is not yet present); its step names the first of them; and
\* the node built from a successor has g one above its parent's and a path one
\* step longer.
C13_IntersectionIsOneStep ==
    [][/\ (pc = "while" /\ pc' = "for")
             => OneStepPerPair(current_state', successors')
       /\ \A n \in open_list' \ open_list :
             /\ n.g_cost = g_cost + 1
             /\ Len(n.path) = Len(path) + 1]_vars

\* A node built by one two-point intersection from the initial state is in
\* the open set
C13_Witness ==
    \E n \in open_list :
        /\ n.g_cost = 1
        /\ IsIntersection([step |-> n.path[1]])
        /\ Len(n.state.objects.points) = Len(initial_state.objects.points) + 2

\* The canonical key of the state of a node
NodeKey(node) == get_state_hash(node.state.objects)

\* The key of every node of the open set is in the visited set, and no two
\* nodes of the open set have the same key
OpenKeysVisited ==
    LET keys == {NodeKey(n) : n \in open_list}
    IN  /\ keys \subseteq visited
        /\ Cardinality(keys) = Cardinality(open_list)

\* C14: the visited set prevents revisits.  At the head of every iteration of
\* the main loop, and when solve has returned, the key of every node of the
\* open set is in the visited set and the keys are pairwise distinct.  Inside
\* the for loop the open set changes by pushes only, one node a step; a node
\* is pushed only when its key is not in the visited set, the key enters the
\* set with the push, and no key ever leaves the set: so no two nodes ever
\* pushed have equal keys, and the key of every open node is in the visited
\* set at every moment.
C14_NoRevisit ==
    /\ [](pc # "for" => OpenKeysVisited)
    /\ [][/\ visited \subseteq visited'
          /\ pc = "for" => open_list \subseteq open_list'
          /\ Cardinality(open_list' \ open_list) <= 1
          /\ \A n \in open_list' \ open_list :
                /\ NodeKey(n) \notin visited
                /\ NodeKey(n) \in visited']_vars

\* A successor whose key is in the visited set is at the head of the for
\* loop while nodes wait in the open set
C14_Witness ==
    /\ pc = "for"
    /\ successors # <<>>
    /\ get_state_hash(Head(successors).objects) \in visited
    /\ Cardinality(open_list) >= 2

\* The canonical forms of the figures of one type of a state
Canon(objects, t) ==
    {norm_funcs(t, objects[type_plural(t)][i].data) :
        i \in 1..Len(objects[type_plural(t)])}

\* No two figures of the same type of the state have equal canonical forms
CanonUnique(objects) ==
    \A t \in {"point", "line", "circle"} :
        Cardinality(Canon(objects, t)) = Len(objects[type_plural(t)])

\* new_objects holds a figure whose canonical form no figure of objects has
AddsNewFigure(objects, new_objects) ==
    \E t \in {"point", "line", "circle"} :
        ~(Canon(new_objects, t) \subseteq Canon(objects, t))

\* C15: when no two figures of the same type of an expanded state have equal
\* canonical forms, the same is true of every successor generate_successors
\* returns for it, and every successor holds a figure whose canonical form is
\* not in the expanded state.
C15_CanonicalUniqueness ==
    [][(pc = "while" /\ pc' = "for" /\ CanonUnique(current_state'.objects))
          => \A j \in 1..Len(successors') :
                /\ CanonUnique(successors'[j].objects)
                /\ AddsNewFigure(current_state'.objects,
                                 successors'[j].objects)]_vars

\* A state was expanded in which the line through two of its points is
\* already one of its lines, and it has successors
C15_Witness ==
    /\ pc = "for"
    /\ successors # <<>>
    /\ LET points == current_state.objects.points
       IN  \E i, j \in 1..Len(points) :
              /\ i < j
              /\ normalize_line(construct_line_from_points(points[i].data,
                                                           points[j].data))
                    \in Canon(current_state.objects, "line")

=============================================================================
